---------------------------- MODULE Spec2Model ----------------------------
(***************************************************************************)
(* Website Testing Agent API (submissions/agno-hack/api_server.py).        *)
(*                                                                         *)
(* The service keeps one in-memory dict, task_storage, and runs every      *)
(* submitted test as a coroutine on the single asyncio event loop.  A      *)
(* coroutine can only be interleaved with requests and with other          *)
(* coroutines where it awaits an external call, so one action of the model *)
(* is the code between two such awaits.                                    *)
(***************************************************************************)
EXTENDS Integers, Sequences, FiniteSets, TLC

\* ------------------------------------------------------------------ bounds
MaxRuns == 2        \* submissions accepted in one behaviour
MaxClock == 1       \* wall-clock readings 0..MaxClock (microseconds)

\* ---------------------------------------------------------- Python values
None == "<None>"            \* Python None in a string-valued slot
NoneT == <<>>               \* Python None in a path-, URL- or time-valued slot
NoExc == "<no exception>"   \* no exception was raised

\* str(e) of the exceptions the external calls can raise; Exception() and
\* asyncio.TimeoutError() stringify to "".
ExcMessages == {"", "boom"}

Runs == 1..MaxRuns
Times == 0..MaxClock

\* task_id = f"task_{datetime.now().strftime('%Y%m%d_%H%M%S_%f')}": the id is
\* the submission time, microsecond by microsecond, behind a fixed prefix.
TaskId(t) == <<"task", t>>
TaskIds == {TaskId(t) : t \in Times}

\* dict.get(key, default) and d[key] = value on a dict modelled as a function
DictGet(d, k, default) == IF k \in DOMAIN d THEN d[k] ELSE default
DictSet(d, k, v) == (k :> v) @@ d

VARIABLES
    GEMINI_API_KEY,   \* TRUE iff os.getenv("GEMINI_API_KEY") is non-empty
    clock,            \* what datetime.now() returns
    task_storage,     \* task id -> task record (a dict)
    storage_order,    \* insertion order of task_storage's keys
    run,              \* run index -> locals of one execute_task coroutine
    nruns,            \* background tasks added so far
    sys_stdout        \* sys.stdout/sys.stderr: <<"orig">> or <<"tee", r>>

vars == <<GEMINI_API_KEY, clock, task_storage, storage_order, run, nruns,
          sys_stdout>>

\* ------------------------------------------------- the raw history's shape
\* A value found in a history entry: str(v) is v.text, or raises when v.bad;
\* "if v" is false for the empty text only.
Val(t) == [text |-> t, bad |-> FALSE]
BadVal == [text |-> "<unprintable>", bad |-> TRUE]
StrFailed == "__str__ failed"
Truthy(v) == v.text /= ""

\* A screenshot payload is named by the encoding it has.
\*   bytes       raw binary                 image       object with save()
\*   image_bad   save() raises              data_image  data:image/...;base64,<ok>
\*   data_short  data:image with no comma   http        http(s) URL string
\*   path_ok     /path of an existing file  path_gone   /path of no file
\*   relative    any other string           object      any other object
\*   empty       b"" or "" (falsy)
PayloadKinds ==
    {"bytes", "image", "image_bad", "data_image", "data_short", "http",
     "path_ok", "path_gone", "relative", "object", "empty"}
PayloadTruthy(p) == p /= "empty"
IsBytes(p) == p = "bytes"
HasSave(p) == p \in {"image", "image_bad"}
IsStr(p) == p \in {"data_image", "data_short", "http", "path_ok", "path_gone", "relative"}
StartsWithHttp(p) == p = "http"
StartsWithSlash(p) == p \in {"path_ok", "path_gone"}
StartsWithData(p) == p \in {"data_image", "data_short"}
StartsWithDataImage(p) == p \in {"data_image", "data_short"}
PathExists(p) == p = "path_ok"
DecodeFailed == "not enough values to unpack (expected 2, got 1)"
SaveFailed == "cannot write image"

\* A history entry is a tuple of items or an object with attributes.  An item
\* may carry a screenshot attribute; an object's attributes are those in its
\* domain.
TupleEntry(items) == [tuple |-> TRUE, items |-> items]
ObjEntry(attrs) == [tuple |-> FALSE, attrs |-> attrs]
Item(v) == [value |-> v]
ItemShot(v, p) == [value |-> v, screenshot |-> p]

\* What the automation agent's run() returns.
HList(items) == [kind |-> "list", items |-> items]
HNone == [kind |-> "None"]
HObject(e) == [kind |-> "object", obj |-> e]
HistoryTruthy(h) == CASE h.kind = "list" -> h.items /= <<>>
                      [] h.kind = "None" -> FALSE
                      [] OTHER -> TRUE
HasIter(h) == h.kind = "list"

\* ------------------------------------------------------ names and times
\* datetime.now().isoformat().  The service writes these texts and never
\* reads one back, so the model keeps that a text is an ISO timestamp and
\* not which reading it shows.
IsoFormat(t) == <<"iso">>
\* datetime.now().strftime("%Y%m%d_%H%M%S"): the reading cut to the second.
MicrosPerSecond == 1000000
StrfSeconds(t) == <<"sec", t \div MicrosPerSecond>>
\* f"{task_id}_step_{i+1}_{timestamp}.png" and f"{task_id}_{step_name}_{timestamp}.png"
StepShotName(task_id, n, ts) == task_id \o <<"step", n>> \o ts
ManualShotName(task_id, step_name, ts) == task_id \o <<step_name>> \o ts
\* self.screenshots_dir / filename and f"/screenshots/{filename}"
ShotPath(name) == <<"operation_logs/screenshots">> \o name
ShotUrl(name) == <<"/screenshots">> \o name

\* --------------------------------------------- save_execution_results
\* A variant of the list that probes "input" first.
action_attrs_input_first == <<"input", "model_output", "action", "query", "tool_calls">>

action_attrs == <<"model_output", "action", "input", "query", "tool_calls">>
result_attrs == <<"result", "output", "response", "content">>
timestamp_attrs == <<"timestamp", "time", "created_at">>
screenshot_attrs == <<"screenshot", "image", "screen_capture", "page_screenshot">>

\* for attr in names: if hasattr(step, attr): value = getattr(step, attr);
\* if value: ... break.  The position of the attribute used, 0 when none is.
RECURSIVE FirstTruthyAttr(_, _, _)
FirstTruthyAttr(attrs, names, k) ==
    IF k > Len(names) THEN 0
    ELSE IF names[k] \in DOMAIN attrs /\ Truthy(attrs[names[k]]) THEN k
    ELSE FirstTruthyAttr(attrs, names, k + 1)

\* The try block of lines 423-441 on one payload of an object entry:
\* "written" (a file now exists), "nothing" (no branch wrote) or "raises".
DecodeObjectPayload(p) ==
    IF IsBytes(p) THEN "written"
    ELSE IF HasSave(p) THEN (IF p = "image_bad" THEN "raises" ELSE "written")
    ELSE IF IsStr(p) /\ (StartsWithHttp(p) \/ StartsWithSlash(p) \/ StartsWithData(p))
         THEN IF StartsWithDataImage(p)
              THEN (IF p = "data_short" THEN "raises" ELSE "written")
              ELSE IF StartsWithSlash(p) /\ PathExists(p) THEN "written"
              ELSE "nothing"
    ELSE "nothing"

\* The try block of lines 358-364 on one payload of a tuple item.
DecodeTuplePayload(p) ==
    IF IsBytes(p) THEN "written"
    ELSE IF HasSave(p) THEN (IF p = "image_bad" THEN "raises" ELSE "written")
    ELSE "nothing"

\* Lines 415-453: the screenshot fields of an object entry, in order; the
\* first whose try block does not raise is recorded and ends the loop.
RECURSIVE ObjectShot(_, _)
ObjectShot(attrs, k) ==
    IF k > Len(screenshot_attrs) THEN [found |-> FALSE, written |-> FALSE, attr |-> 0]
    ELSE LET a == screenshot_attrs[k] IN
         IF a \in DOMAIN attrs /\ PayloadTruthy(attrs[a])
         THEN LET d == DecodeObjectPayload(attrs[a]) IN
              IF d = "raises" THEN ObjectShot(attrs, k + 1)
              ELSE [found |-> TRUE, written |-> d = "written", attr |-> k]
         ELSE ObjectShot(attrs, k + 1)

\* Lines 349-374: the items of a tuple entry, in order.  str(item) is taken of
\* every item looked at; the first item whose screenshot is recorded ends
\* the loop.
RECURSIVE TupleShot(_, _)
TupleShot(items, j) ==
    IF j > Len(items) THEN [exc |-> NoExc, found |-> FALSE, written |-> FALSE]
    ELSE LET it == items[j] IN
         IF it.value.bad THEN [exc |-> StrFailed, found |-> FALSE, written |-> FALSE]
         ELSE IF "screenshot" \in DOMAIN it /\ PayloadTruthy(it.screenshot)
         THEN LET d == DecodeTuplePayload(it.screenshot) IN
              IF d = "raises" THEN TupleShot(items, j + 1)
              ELSE [exc |-> NoExc, found |-> TRUE, written |-> d = "written"]
         ELSE TupleShot(items, j + 1)

\* Lines 327-463: one pass of the loop body for entry `step`, the n-th.
\* exc is the message of the exception that leaves the body (NoExc when none
\* does); shot holds the path appended to results["screenshots"], if any.
ProcessStep(step, n, task_id, ts, now) ==
    LET name == StepShotName(task_id, n, ts)
        base == [step_number |-> n, action |-> "N/A", result |-> "N/A",
                 timestamp |-> IsoFormat(now), screenshot_url |-> NoneT]
        raised == [exc |-> StrFailed, info |-> base, shot |-> <<>>, written |-> FALSE]
        WithShot(info, s) ==
            IF s.found
            THEN [exc |-> NoExc,
                  info |-> DictSet(DictSet(info, "screenshot", ShotPath(name)),
                                   "screenshot_url", ShotUrl(name)),
                  shot |-> <<name>>, written |-> s.written]
            ELSE [exc |-> NoExc, info |-> info, shot |-> <<>>, written |-> FALSE]
    IN  IF step.tuple
        THEN LET items == step.items
                 pair == Len(items) >= 2
                 info == IF pair
                         THEN [base EXCEPT
                                 !.action = IF Truthy(items[1].value)
                                            THEN items[1].value.text ELSE "N/A",
                                 !.result = IF Truthy(items[2].value)
                                            THEN items[2].value.text ELSE "N/A"]
                         ELSE base
                 s == TupleShot(items, 1)
             IN  IF pair /\ (items[1].value.bad \/ items[2].value.bad) THEN raised
                 ELSE IF s.exc /= NoExc THEN raised
                 ELSE WithShot(info, s)
        ELSE LET attrs == step.attrs
                 ka == FirstTruthyAttr(attrs, action_attrs, 1)
                 kr == FirstTruthyAttr(attrs, result_attrs, 1)
                 kt == FirstTruthyAttr(attrs, timestamp_attrs, 1)
                 va == attrs[action_attrs[ka]]
                 vr == attrs[result_attrs[kr]]
                 vt == attrs[timestamp_attrs[kt]]
                 info == [base EXCEPT
                            !.action = IF ka > 0 THEN va.text ELSE @,
                            !.result = IF kr > 0 THEN vr.text ELSE @,
                            !.timestamp = IF kt > 0 THEN <<"text", vt.text>> ELSE @]
             IN  IF \/ ka > 0 /\ va.bad
                    \/ kr > 0 /\ vr.bad
                    \/ kt > 0 /\ vt.bad
                 THEN raised
                 ELSE WithShot(info, ObjectShot(attrs, 1))

\* Lines 323-463: the loop over history_list from entry n on.  An exception
\* leaving the body ends the loop; what was appended before it stays.
RECURSIVE StepLoop(_, _, _, _, _, _)
StepLoop(list, n, acc, task_id, ts, now) ==
    IF n > Len(list) THEN acc
    ELSE LET p == ProcessStep(list[n], n, task_id, ts, now) IN
         IF p.exc /= NoExc THEN [acc EXCEPT !.exc = p.exc]
         ELSE StepLoop(list, n + 1,
                [acc EXCEPT
                   !.execution_steps = Append(@, p.info),
                   !.screenshots = @ \o [k \in 1..Len(p.shot) |-> ShotPath(p.shot[k])],
                   !.screenshot_urls = @ \o [k \in 1..Len(p.shot) |-> ShotUrl(p.shot[k])],
                   !.written = IF p.written THEN @ \cup {ShotPath(p.shot[1])} ELSE @,
                   !.full_conversation =
                       IF p.info.action /= "N/A"
                       THEN Append(@, [step |-> n, model_output |-> p.info.action,
                                       timestamp |-> p.info.timestamp])
                       ELSE @],
                task_id, ts, now)

\* Lines 307-311: list(history) when it is iterable, [history] when it is
\* not and is truthy, [] otherwise.
history_list(history) ==
    IF HasIter(history) THEN history.items
    ELSE IF HistoryTruthy(history) THEN <<history.obj>>
    ELSE <<>>

\* Line 465 and its guard at line 322: success is set after the loop, inside
\* "if history_list:".
SuccessAfterLoop(list) == list /= <<>>

\* A variant of the loop that loses the screenshot lists it built.
NormalizeLoop_drop_shots(history, task_id, now) ==
    [StepLoop(history_list(history), 1,
              [execution_steps |-> <<>>, screenshots |-> <<>>, screenshot_urls |-> <<>>,
               full_conversation |-> <<>>, written |-> {}, exc |-> NoExc],
              task_id, StrfSeconds(now), now)
       EXCEPT !.screenshots = <<>>, !.screenshot_urls = <<>>]

\* Lines 302-468: the try block around the loop.
NormalizeLoop(history, task_id, now) ==
    StepLoop(history_list(history), 1,
             [execution_steps |-> <<>>, screenshots |-> <<>>, screenshot_urls |-> <<>>,
              full_conversation |-> <<>>, written |-> {}, exc |-> NoExc],
             task_id, StrfSeconds(now), now)

SaveFailedMessage == "Error saving results: [Errno 28] No space left on device"

\* Lines 282-486.  write_ok: whether writing the JSON log file succeeds.
save_execution_results(history, task_details, task_id, now, write_ok) ==
    LET acc == NormalizeLoop(history, task_id, now)
        results ==
            [task_id |-> task_id,
             timestamp |-> IsoFormat(now),
             task_details |-> task_details,
             execution_steps |-> acc.execution_steps,
             screenshots |-> acc.screenshots,
             screenshot_urls |-> acc.screenshot_urls,
             success |-> acc.exc = NoExc /\ SuccessAfterLoop(history_list(history)),
             error |-> IF acc.exc = NoExc THEN None ELSE acc.exc,
             full_conversation |-> acc.full_conversation]
    IN  IF write_ok
        THEN DictSet(results, "log_file",
                     <<"operation_logs", "browser_execution">> \o task_id \o StrfSeconds(now))
        ELSE [results EXCEPT !.error = SaveFailedMessage]

\* The screenshot files save_execution_results leaves on disk.
save_execution_files(history, task_id, now) == NormalizeLoop(history, task_id, now).written

\* ------------------------------------------- capture_manual_screenshot
\* What one page-access strategy meets: "ok" (a page, and its screenshot is
\* written), "empty" (no page / no such attribute) or "raises".
StrategyOutcomes == {"ok", "empty", "raises"}

\* A variant of the capture that gives up after its first strategy.
capture_manual_screenshot_first_only(has_browser, methods, task_id, step_name, now) ==
    IF has_browser /\ methods[1] = "ok"
    THEN [path |-> ShotPath(ManualShotName(task_id, step_name, StrfSeconds(now))),
          url |-> ShotUrl(ManualShotName(task_id, step_name, StrfSeconds(now)))]
    ELSE [path |-> NoneT, url |-> NoneT]

\* Lines 653-708.  has_browser: browser_agent.browser exists and is truthy;
\* methods[k]: what strategy k (get_current_page, browser_context.pages[0],
\* _browser_context.pages[0]) meets.  The pair (path, URL), or (None, None).
capture_manual_screenshot(has_browser, methods, task_id, step_name, now) ==
    LET name == ManualShotName(task_id, step_name, StrfSeconds(now))
        taken == [path |-> ShotPath(name), url |-> ShotUrl(name)]
        none == [path |-> NoneT, url |-> NoneT]
    IN  IF has_browser /\ (\E k \in 1..Len(methods) : methods[k] = "ok")
        THEN taken
        ELSE none

\* The strategy whose screenshot is returned: the first that meets "ok".
RECURSIVE FirstOk(_, _)
FirstOk(methods, k) ==
    IF k > Len(methods) THEN 0
    ELSE IF methods[k] = "ok" THEN k
    ELSE FirstOk(methods, k + 1)

\* ------------------------------------------------------- execute_task
Response(op, id, code, body) == [op |-> op, task_id |-> id, code |-> code, body |-> body]
Detail(text) == [detail |-> text]

Tee(r) == <<"tee", r>>
OrigStream == <<"orig">>

IdleRun ==
    [pc |-> "idle", task_id |-> NoneT, task_details |-> <<>>,
     original_stdout |-> NoneT, initial |-> NoneT, final |-> NoneT,
     history |-> HNone, results |-> <<>>, closes |-> 0, exc |-> NoExc]

\* f"Error creating browser agent: {e}" (line 280)
CreateFailed(msg) == "Error creating browser agent: " \o msg
NotIterable == "object is not iterable"
LoggingFailed == "[Errno 24] Too many open files"

\* Lines 608-620: the error_result document.
ErrorResult(task_id, task_details, e, now) ==
    [task_id |-> task_id,
     timestamp |-> IsoFormat(now),
     task_details |-> task_details,
     success |-> FALSE,
     error |-> e,
     execution_steps |-> <<>>,
     screenshots |-> <<>>,
     screenshot_urls |-> <<>>]

\* Lines 626-630: the record after the failed transition.
FailedRecord(rec, e, error_result, now) ==
    DictSet(DictSet(DictSet(DictSet(rec,
        "status", "failed"),
        "end_time", IsoFormat(now)),
        "error", e),
        "results", error_result)

\* Lines 585-587: the record after the completed transition.
CompletedRecord(rec, results, now) ==
    DictSet(DictSet(DictSet(rec,
        "status", "completed"),
        "end_time", IsoFormat(now)),
        "results", results)

\* Lines 602-651: the except block and the finally block, for exception
\* message e raised inside the try of run r.
Fail(r, e, closes, original_stdout) ==
    LET id == run[r].task_id IN
    /\ task_storage' =
         [task_storage EXCEPT
            ![id] = FailedRecord(@, e, ErrorResult(id, run[r].task_details, e, clock), clock)]
    /\ sys_stdout' = original_stdout
    /\ run' = [run EXCEPT ![r] = [IdleRun EXCEPT !.pc = "returned", !.task_id = id,
                                                 !.closes = closes, !.exc = e]]

\* Whether setup_detailed_logging (lines 501, 106-131) raises before the try
\* block is entered, given that opening its log file fails.
LoggingSetupRaises(open_fails) == open_fails

\* Lines 490-539, up to the await of create_browser_agent.  open_fails:
\* logging.FileHandler cannot open its file, which is outside the try block.
StartTask(r, open_fails) ==
    LET id == run[r].task_id
        running == DictSet(DictSet(task_storage[id], "status", "running"),
                           "progress", "Setting up logging...")
    IN
    /\ run[r].pc = "queued"
    /\ IF LoggingSetupRaises(open_fails)
       THEN /\ task_storage' = [task_storage EXCEPT ![id] = running]
            /\ run' = [run EXCEPT ![r].pc = "raised", ![r].exc = LoggingFailed]
            /\ UNCHANGED sys_stdout
       ELSE /\ task_storage' =
                 [task_storage EXCEPT
                    ![id] = DictSet(running, "progress", "Initializing browser agent...")]
            /\ sys_stdout' = Tee(r)
            /\ run' = [run EXCEPT ![r].pc = "create_agent",
                                  ![r].original_stdout = sys_stdout]
    /\ UNCHANGED <<GEMINI_API_KEY, clock, storage_order, nruns>>

\* Line 539 resumes: create_browser_agent (lines 172-280) returns the agent
\* or raises; line 548 awaits the "initial" capture.
CreateAgent(r, agent_exc) ==
    /\ run[r].pc = "create_agent"
    /\ IF agent_exc /= NoExc \/ ~GEMINI_API_KEY
       THEN Fail(r, CreateFailed(IF GEMINI_API_KEY THEN agent_exc
                                 ELSE "GEMINI_API_KEY not configured"),
                 run[r].closes, run[r].original_stdout)
       ELSE /\ task_storage' =
                 [task_storage EXCEPT
                    ![run[r].task_id] = DictSet(@, "progress", "Executing automation task...")]
            /\ run' = [run EXCEPT ![r].pc = "initial_shot"]
            /\ UNCHANGED sys_stdout
    /\ UNCHANGED <<GEMINI_API_KEY, clock, storage_order, nruns>>

\* A variant in which a run waits while another run's automation call is
\* outstanding.
InitialShot_serial(r, methods) ==
    /\ run[r].pc = "initial_shot"
    /\ \A q \in Runs \ {r} : run[q].pc /= "run"
    /\ run' = [run EXCEPT
                 ![r].pc = "run",
                 ![r].initial = capture_manual_screenshot(TRUE, methods, run[r].task_id,
                                                          "initial", clock)]
    /\ UNCHANGED <<GEMINI_API_KEY, clock, task_storage, storage_order, nruns,
                   sys_stdout>>

\* Line 548 resumes: the "initial" capture returns; line 551 awaits run().
InitialShot(r, methods) ==
    /\ run[r].pc = "initial_shot"
    /\ run' = [run EXCEPT
                 ![r].pc = "run",
                 ![r].initial = capture_manual_screenshot(TRUE, methods, run[r].task_id,
                                                          "initial", clock)]
    /\ UNCHANGED <<GEMINI_API_KEY, clock, task_storage, storage_order, nruns,
                   sys_stdout>>

\* Line 551 resumes: run() returns a history or raises; line 555 awaits the
\* "final" capture.
AgentRun(r, history, exc) ==
    /\ run[r].pc = "run"
    /\ IF exc /= NoExc
       THEN Fail(r, exc, run[r].closes, run[r].original_stdout)
       ELSE /\ run' = [run EXCEPT ![r].pc = "final_shot", ![r].history = history]
            /\ UNCHANGED <<task_storage, sys_stdout>>
    /\ UNCHANGED <<GEMINI_API_KEY, clock, storage_order, nruns>>

\* A variant of the merge that appends the "final" capture first.
MergeManual_final_first(results, initial, final) ==
    LET add(res, shot) ==
            IF shot.path /= NoneT
            THEN [res EXCEPT !.screenshots = Append(@, shot.path),
                             !.screenshot_urls = Append(@, shot.url)]
            ELSE res
    IN  add(add(results, final), initial)

\* Lines 566-575: the manual screenshots appended to the normalized result.
MergeManual(results, initial, final) ==
    LET add(res, shot) ==
            IF shot.path /= NoneT
            THEN [res EXCEPT !.screenshots = Append(@, shot.path),
                             !.screenshot_urls = Append(@, shot.url)]
            ELSE res
    IN  add(add(results, initial), final)

\* Line 555 resumes: the "final" capture returns; lines 557-581 run up to the
\* await of browser.close().  len(list(history)) at line 559 raises for a
\* truthy history that is not iterable.
FinalShot(r, methods, write_ok) ==
    LET id == run[r].task_id
        final == capture_manual_screenshot(TRUE, methods, id, "final", clock)
        results == save_execution_results(run[r].history, run[r].task_details, id,
                                          clock, write_ok)
    IN
    /\ run[r].pc = "final_shot"
    /\ IF HistoryTruthy(run[r].history) /\ ~HasIter(run[r].history)
       THEN Fail(r, NotIterable, run[r].closes, run[r].original_stdout)
       ELSE /\ task_storage' =
                 [task_storage EXCEPT
                    ![id] = DictSet(@, "progress", "Saving results and screenshots...")]
            /\ run' = [run EXCEPT
                         ![r].pc = "close",
                         ![r].final = final,
                         ![r].results = MergeManual(results, run[r].initial, final)]
            /\ UNCHANGED sys_stdout
    /\ UNCHANGED <<GEMINI_API_KEY, clock, storage_order, nruns>>

\* Lines 590-596: the log file names added to the stored result.
WithLogFiles(results, task_id) ==
    DictSet(DictSet(results, "detailed_log_file", <<"detailed_agent_log">> \o task_id),
            "agent_thoughts_file", <<"agent_thoughts">> \o task_id)

\* Line 581 resumes: browser.close() returns or raises; lines 584-600 and the
\* finally block follow without another await.
CloseBrowser(r, exc) ==
    LET id == run[r].task_id IN
    /\ run[r].pc = "close"
    /\ IF exc /= NoExc
       THEN Fail(r, exc, run[r].closes + 1, run[r].original_stdout)
       ELSE /\ task_storage' =
                 [task_storage EXCEPT
                    ![id] = CompletedRecord(@, WithLogFiles(run[r].results, id), clock)]
            /\ sys_stdout' = run[r].original_stdout
            /\ run' = [run EXCEPT ![r] = [IdleRun EXCEPT !.pc = "returned", !.task_id = id,
                                                         !.closes = run[r].closes + 1]]
    /\ UNCHANGED <<GEMINI_API_KEY, clock, storage_order, nruns>>

\* ------------------------------------------------- variants of the guards
\* Used to show that the properties below depend on the guards as written.
ResultsNotReady_completed_only(status) == status /= "completed"

AnalysisNotAllowed_failed_allowed(status) == status \notin {"completed", "failed"}

analyze_results_response_key_first(task_id, llm_exc) ==
    IF ~GEMINI_API_KEY
    THEN [op |-> "analyze_results", task_id |-> task_id, code |-> 500,
          body |-> [detail |-> "GEMINI_API_KEY not configured"]]
    ELSE IF task_id \notin DOMAIN task_storage
    THEN [op |-> "analyze_results", task_id |-> task_id, code |-> 404,
          body |-> [detail |-> "Task not found"]]
    ELSE IF task_storage[task_id]["status"] /= "completed"
    THEN [op |-> "analyze_results", task_id |-> task_id, code |-> 400,
          body |-> [detail |-> "Task must be completed before analysis"]]
    ELSE IF llm_exc /= NoExc
    THEN [op |-> "analyze_results", task_id |-> task_id, code |-> 500,
          body |-> [detail |-> <<"Analysis failed:", llm_exc>>]]
    ELSE [op |-> "analyze_results", task_id |-> task_id, code |-> 200,
          body |-> [task_id |-> task_id, analysis_content |-> "report",
                    timestamp |-> IsoFormat(clock)]]

\* ------------------------------------------------------------ endpoints
\* A handler's reply is a function of the request and of the state it runs
\* in (no handler awaits before it answers), so each reply is an operator
\* over the current state and each handler's action is its effect on it.

\* Lines 865-866 and 890-895: the reply to POST /execute-test.
execute_test_response ==
    IF ~GEMINI_API_KEY
    THEN Response("execute_test", NoneT, 500, Detail("GEMINI_API_KEY not configured"))
    ELSE Response("execute_test", TaskId(clock), 200,
                  [task_id |-> TaskId(clock), status |-> "pending"])

\* Lines 862-888.  The id is read off the clock; the record is stored under
\* it whether or not the key exists already, and the run is queued.  limit
\* bounds the submissions of one behaviour.
execute_test(instructions, limit) ==
    IF ~GEMINI_API_KEY
    THEN UNCHANGED vars
    ELSE LET task_id == TaskId(clock)
             r == nruns + 1
         IN  /\ nruns < limit
             /\ task_storage' =
                  DictSet(task_storage, task_id,
                          [task_id |-> task_id, status |-> "pending",
                           start_time |-> IsoFormat(clock),
                           progress |-> "Task queued for execution",
                           instructions |-> instructions])
             /\ storage_order' = IF task_id \in DOMAIN task_storage THEN storage_order
                                 ELSE Append(storage_order, task_id)
             /\ nruns' = r
             /\ run' = [run EXCEPT ![r] = [IdleRun EXCEPT !.pc = "queued",
                                             !.task_id = task_id,
                                             !.task_details = instructions]]
             /\ UNCHANGED <<GEMINI_API_KEY, clock, sys_stdout>>

\* "if task_id not in task_storage" (lines 900, 916, 929)
NotInStorage(task_id) == task_id \notin DOMAIN task_storage

\* Lines 897-911: the reply to GET /task-status/{task_id}.
get_task_status_response(task_id) ==
    IF NotInStorage(task_id)
    THEN Response("get_task_status", task_id, 404, Detail("Task not found"))
    ELSE LET task_info == task_storage[task_id] IN
         Response("get_task_status", task_id, 200,
                  [task_id |-> task_id,
                   status |-> task_info["status"],
                   progress |-> DictGet(task_info, "progress", None),
                   start_time |-> DictGet(task_info, "start_time", NoneT),
                   end_time |-> DictGet(task_info, "end_time", NoneT),
                   error |-> DictGet(task_info, "error", None)])

get_task_status(task_id) == UNCHANGED vars

\* task_info["status"] not in ["completed", "failed"] (line 921)
ResultsNotReady(status) == status \notin {"completed", "failed"}

\* Lines 913-924: the reply to GET /task-results/{task_id}.
get_task_results_response(task_id) ==
    IF NotInStorage(task_id)
    THEN Response("get_task_results", task_id, 404, Detail("Task not found"))
    ELSE LET task_info == task_storage[task_id] IN
         IF ResultsNotReady(task_info["status"])
         THEN Response("get_task_results", task_id, 400,
                       Detail(<<"Task is still", task_info["status"]>>))
         ELSE Response("get_task_results", task_id, 200, DictGet(task_info, "results", <<>>))

get_task_results(task_id) == UNCHANGED vars

\* task_info["status"] != "completed" (line 934)
AnalysisNotAllowed(status) == status /= "completed"

\* Lines 984-988: the analysis document.
AnalysisResult(task_id, now) ==
    [task_id |-> task_id, analysis_content |-> "report", timestamp |-> IsoFormat(now)]

\* Lines 926-995: the reply to POST /analyze-results/{task_id}.  llm_exc: what
\* building the analysis agent, serialising the prompt or analyzer_agent.run
\* raises (NoExc when they return).
analyze_results_response(task_id, llm_exc) ==
    IF NotInStorage(task_id)
    THEN Response("analyze_results", task_id, 404, Detail("Task not found"))
    ELSE IF AnalysisNotAllowed(task_storage[task_id]["status"])
    THEN Response("analyze_results", task_id, 400,
                  Detail("Task must be completed before analysis"))
    ELSE IF ~GEMINI_API_KEY
    THEN Response("analyze_results", task_id, 500, Detail("GEMINI_API_KEY not configured"))
    ELSE IF llm_exc /= NoExc
    THEN Response("analyze_results", task_id, 500, Detail(<<"Analysis failed:", llm_exc>>))
    ELSE Response("analyze_results", task_id, 200, AnalysisResult(task_id, clock))

\* Lines 926-995: the store the handler leaves behind.  Only the reply with
\* code 200 is preceded by the write of line 990.
StorageAfterAnalyze(task_id, llm_exc) ==
    IF analyze_results_response(task_id, llm_exc).code = 200
    THEN [task_storage EXCEPT
            ![task_id] = DictSet(@, "analysis", AnalysisResult(task_id, clock))]
    ELSE task_storage

analyze_results(task_id, llm_exc) ==
    /\ task_storage' = StorageAfterAnalyze(task_id, llm_exc)
    /\ UNCHANGED <<GEMINI_API_KEY, clock, storage_order, run, nruns, sys_stdout>>

\* Lines 997-1010: one summary per key of task_storage, in the dict's order.
list_tasks_response ==
    Response("list_tasks", NoneT, 200,
             [tasks |-> [k \in 1..Len(storage_order) |->
                 LET info == task_storage[storage_order[k]] IN
                 [task_id |-> storage_order[k],
                  status |-> info["status"],
                  start_time |-> DictGet(info, "start_time", NoneT),
                  end_time |-> DictGet(info, "end_time", NoneT)]]])

list_tasks == UNCHANGED vars

\* The wall clock moves on between two readings, or does not: its resolution
\* is the platform's, and nothing in the service waits for it.
Tick ==
    /\ clock < MaxClock
    /\ clock' = clock + 1
    /\ UNCHANGED <<GEMINI_API_KEY, task_storage, storage_order, run, nruns, sys_stdout>>

\* ------------------------------------------------------ ResultsAnalyzer
\* Texts the analyzer searches are sequences of characters.
UpperCase == <<"A", "B", "C", "D", "E", "F", "G", "H", "I", "J", "K", "L", "M", "N", "O", "P", "Q", "R", "S", "T", "U", "V", "W", "X", "Y", "Z">>
LowerCase == <<"a", "b", "c", "d", "e", "f", "g", "h", "i", "j", "k", "l", "m", "n", "o", "p", "q", "r", "s", "t", "u", "v", "w", "x", "y", "z">>
LowerChar(c) ==
    IF \E k \in 1..Len(UpperCase) : UpperCase[k] = c
    THEN LowerCase[CHOOSE k \in 1..Len(UpperCase) : UpperCase[k] = c]
    ELSE c
\* str.lower()
Lower(text) == [i \in 1..Len(text) |-> LowerChar(text[i])]
\* needle in hay, on strings: some slice of hay equals needle.
Contains(hay, needle) ==
    \E i \in 0..(Len(hay) - Len(needle)) : SubSeq(hay, i + 1, i + Len(needle)) = needle
Navigate == <<"n", "a", "v", "i", "g", "a", "t", "e">>

\* A variant of the test that looks for "navigate" without lower().
UrlAccessed_case_sensitive(execution_steps, target_url) ==
    \E k \in 1..Len(execution_steps) :
        LET action == DictGet(execution_steps[k], "action", <<>>) IN
        Contains(action, Navigate) \/ Contains(action, target_url)

\* Lines 756-757: any("navigate" in step.get("action", "").lower() or
\* target_url in step.get("action", "") for step in execution_steps)
UrlAccessed(execution_steps, target_url) ==
    \E k \in 1..Len(execution_steps) :
        LET action == DictGet(execution_steps[k], "action", <<>>) IN
        Contains(Lower(action), Navigate) \/ Contains(action, target_url)

\* A variant of the entry without the branch for an empty requirement list.
ScreenshotsCaptured_strict(required_screenshots, captured_screenshots) ==
    [required |-> Len(required_screenshots),
     captured |-> Len(captured_screenshots),
     meets_requirements |->
         /\ required_screenshots /= <<>>
         /\ Len(captured_screenshots) >= Len(required_screenshots)]

\* Lines 765-769: the screenshots_captured entry of compliance_check.
ScreenshotsCaptured(required_screenshots, captured_screenshots) ==
    [required |-> Len(required_screenshots),
     captured |-> Len(captured_screenshots),
     meets_requirements |->
         IF required_screenshots /= <<>>
         THEN Len(captured_screenshots) >= Len(required_screenshots)
         ELSE TRUE]

\* A variant of the rules that tests the target URL before the failure.
Recommendations_url_first(success, url_accessed, target_url, required, captured) ==
    (IF ~url_accessed
     THEN <<(<<"Target URL", target_url, "may not have been properly accessed">>)>>
     ELSE <<>>)
    \o (IF ~success THEN <<(<<"Task execution failed - check error logs">>)>> ELSE <<>>)
    \o (IF required /= <<>> /\ Len(captured) < Len(required)
        THEN <<(<<"Not all required screenshots were captured">>)>>
        ELSE <<>>)
    \o (IF success /\ url_accessed
        THEN <<(<<"Task appears to have completed successfully">>)>>
             \o (IF captured /= <<>>
                 THEN <<(<<"Successfully captured", Len(captured), "screenshots">>)>>
                 ELSE <<>>)
        ELSE <<>>)

\* Lines 771-784: the recommendations, each a tuple of its fixed text and
\* the values formatted into it.
Recommendations(success, url_accessed, target_url, required, captured) ==
    (IF ~success THEN <<(<<"Task execution failed - check error logs">>)>> ELSE <<>>)
    \o (IF ~url_accessed
        THEN <<(<<"Target URL", target_url, "may not have been properly accessed">>)>>
        ELSE <<>>)
    \o (IF required /= <<>>
           /\ Len(captured) < Len(required)
        THEN <<(<<"Not all required screenshots were captured">>)>>
        ELSE <<>>)
    \o (IF success /\ url_accessed
        THEN <<(<<"Task appears to have completed successfully">>)>>
             \o (IF captured /= <<>>
                 THEN <<(<<"Successfully captured", Len(captured),
                           "screenshots">>)>>
                 ELSE <<>>)
        ELSE <<>>)

\* Lines 718-795, the AnalyzeResults tool of the service.  save_ok: whether
\* the review file can be written.
ResultsAnalyzer_analyze_results(execution_results, original_instructions, now, save_ok) ==
    LET task_id == DictGet(execution_results, "task_id", <<"unknown">>)
        success == DictGet(execution_results, "success", FALSE)
        execution_steps == DictGet(execution_results, "execution_steps", <<>>)
        target_url == DictGet(original_instructions, "target_url", <<>>)
        url_accessed == UrlAccessed(execution_steps, target_url)
        required_screenshots == DictGet(original_instructions, "screenshot_instructions", <<>>)
        captured_screenshots == DictGet(execution_results, "screenshots", <<>>)
        review_report ==
            [task_id |-> task_id,
             timestamp |-> IsoFormat(now),
             original_instructions |-> original_instructions,
             execution_summary |->
                 [success |-> success,
                  steps_completed |-> Len(execution_steps),
                  screenshots_captured |-> Len(captured_screenshots),
                  error |-> DictGet(execution_results, "error", None)],
             detailed_analysis |->
                 [conversation_length |->
                      Len(DictGet(execution_results, "full_conversation", <<>>)),
                  screenshot_analysis |->
                      IF captured_screenshots /= <<>>
                      THEN "Screenshots captured at key moments"
                      ELSE "No screenshots captured"],
             recommendations |->
                 Recommendations(success, url_accessed, target_url, required_screenshots,
                                 captured_screenshots),
             compliance_check |->
                 [target_url_accessed |-> url_accessed,
                  screenshots_captured |->
                      ScreenshotsCaptured(required_screenshots, captured_screenshots)]]
    IN  IF save_ok
        THEN DictSet(review_report, "review_file",
                     <<"operation_logs", "review_report">> \o task_id \o StrfSeconds(now))
        ELSE DictSet(review_report, "error", "Error saving review report: [Errno 28]")

\* The analysis agent calls the tool on the record's results and
\* instructions (lines 944, 957-958, 981) and its answer, here the tool's
\* report itself, is stored as the analysis (lines 984-990).
AnalyzeResultsTool(task_id, save_ok) ==
    /\ analyze_results_response(task_id, NoExc).code = 200
    /\ task_storage' =
         [task_storage EXCEPT
            ![task_id] =
               DictSet(@, "analysis",
                  [task_id |-> task_id,
                   analysis_content |->
                       ResultsAnalyzer_analyze_results(
                           DictGet(@, "results", <<>>), DictGet(@, "instructions", <<>>),
                           clock, save_ok),
                   timestamp |-> IsoFormat(clock)])]
    /\ UNCHANGED <<GEMINI_API_KEY, clock, storage_order, run, nruns, sys_stdout>>

\* --------------------------- ResultsAnalyzer of website_testing_agent.py
\* The script carries its own copy of the tool.  It reads the same keys with
\* the same defaults and tests the target URL with the same expression
\* (lines 290-295 of the script, 752-757 of the service).

\* A variant of the script's entry that wants more captures than required.
ScriptScreenshotsCaptured_more_than(required_screenshots, captured_screenshots) ==
    [required |-> Len(required_screenshots),
     captured |-> Len(captured_screenshots),
     meets_requirements |-> Len(captured_screenshots) > Len(required_screenshots)]

\* Script lines 303-307: the screenshots_captured entry, with no branch for
\* an empty requirement list.
ScriptScreenshotsCaptured(required_screenshots, captured_screenshots) ==
    [required |-> Len(required_screenshots),
     captured |-> Len(captured_screenshots),
     meets_requirements |-> Len(captured_screenshots) >= Len(required_screenshots)]

\* A variant of the script's rules without the failure notice.
ScriptRecommendations_no_failure(success, url_accessed, target_url, required, captured) ==
    (IF ~url_accessed
     THEN <<(<<"Target URL", target_url, "may not have been properly accessed">>)>>
     ELSE <<>>)
    \o (IF Len(captured) < Len(required)
        THEN <<(<<"Not all required screenshots were captured">>)>>
        ELSE <<>>)
    \o (IF success /\ url_accessed
        THEN <<(<<"Task appears to have completed successfully">>)>>
        ELSE <<>>)

\* Script lines 309-320: the recommendations; the script has no
\* captured-count summary.
ScriptRecommendations(success, url_accessed, target_url, required, captured) ==
    (IF ~success THEN <<(<<"Task execution failed - check error logs">>)>> ELSE <<>>)
    \o (IF ~url_accessed
        THEN <<(<<"Target URL", target_url, "may not have been properly accessed">>)>>
        ELSE <<>>)
    \o (IF Len(captured) < Len(required)
        THEN <<(<<"Not all required screenshots were captured">>)>>
        ELSE <<>>)
    \o (IF success /\ url_accessed
        THEN <<(<<"Task appears to have completed successfully">>)>>
        ELSE <<>>)

\* Script lines 261-332.  save_ok: whether the review file can be written;
\* a failed write is printed and leaves the report as it is.
Script_analyze_results(execution_results, original_instructions, now, save_ok) ==
    LET success == DictGet(execution_results, "success", FALSE)
        execution_steps == DictGet(execution_results, "execution_steps", <<>>)
        target_url == DictGet(original_instructions, "target_url", <<>>)
        url_accessed == UrlAccessed(execution_steps, target_url)
        required_screenshots == DictGet(original_instructions, "screenshot_instructions", <<>>)
        captured_screenshots == DictGet(execution_results, "screenshots", <<>>)
        review_report ==
            [timestamp |-> IsoFormat(now),
             original_instructions |-> original_instructions,
             execution_summary |->
                 [success |-> success,
                  steps_completed |-> Len(execution_steps),
                  screenshots_captured |-> Len(captured_screenshots),
                  error |-> DictGet(execution_results, "error", None)],
             detailed_analysis |-> <<>>,
             recommendations |->
                 ScriptRecommendations(success, url_accessed, target_url,
                                       required_screenshots, captured_screenshots),
             compliance_check |->
                 [target_url_accessed |-> url_accessed,
                  screenshots_captured |->
                      ScriptScreenshotsCaptured(required_screenshots, captured_screenshots)]]
    IN  IF save_ok
        THEN DictSet(review_report, "review_file",
                     <<"operation_logs", "review_report">> \o StrfSeconds(now))
        ELSE review_report

\* The script's tool applied to the pair the service's tool is applied to
\* (script lines 341, 358-361, 374).  The script keeps no store: its report
\* is held on the record, next to the service's, so that the two forms can
\* be read side by side.
ScriptAnalyzeResultsTool(task_id, save_ok) ==
    /\ task_id \in DOMAIN task_storage
    /\ task_storage' =
         [task_storage EXCEPT
            ![task_id] =
               DictSet(@, "script_report",
                  Script_analyze_results(
                      DictGet(@, "results", <<>>), DictGet(@, "instructions", <<>>),
                      clock, save_ok))]
    /\ UNCHANGED <<GEMINI_API_KEY, clock, storage_order, run, nruns, sys_stdout>>

\* --------------------------------------------------------- specification
Init ==
    /\ GEMINI_API_KEY \in BOOLEAN
    /\ clock = 0
    /\ task_storage = <<>>
    /\ storage_order = <<>>
    /\ run = [r \in Runs |-> IdleRun]
    /\ nruns = 0
    /\ sys_stdout = OrigStream

\* What the environment supplies.  In Spec, where runs interleave, each
\* external call has one successful outcome or fails; SpecOne follows a
\* single run through every outcome listed here.
TestInstructions ==
    [target_url |-> "http://x.test", task_description |-> "open the page",
     screenshot_instructions |-> <<[step_description |-> "home", filename |-> "home.png"]>>]

NavigateStep ==
    ObjEntry([model_output |-> Val("navigate to http://x.test"), result |-> Val("loaded")])
ClickStep == TupleEntry(<<ItemShot(Val("click"), "bytes"), Item(Val("done"))>>)
UnprintableStep == ObjEntry([action |-> BadVal])
UnknownStep == ObjEntry([other |-> Val("x")])
ShortTuple == TupleEntry(<<Item(Val("only"))>>)

\* An object with several of the probed fields, the first of them empty, and
\* a screenshot field whose decoding raises before two that decode.
PriorityStep ==
    ObjEntry([model_output |-> Val(""), action |-> Val("press"), input |-> Val("type x"),
              output |-> Val("out"), content |-> Val("c"),
              time |-> Val("12:00"), created_at |-> Val("later"),
              screenshot |-> "image_bad", image |-> "data_short",
              screen_capture |-> "data_image", page_screenshot |-> "bytes"])
FalsyTuple ==
    TupleEntry(<<Item(Val("")), Item(Val("res")), ItemShot(Val("third"), "image_bad")>>)
\* Screenshot payloads in none of the supported encodings.
UrlShotStep == ObjEntry([action |-> Val("open"), screenshot |-> "http", image |-> "bytes"])
UrlShotTuple == TupleEntry(<<ItemShot(Val("x"), "http"), Item(Val("y"))>>)
BadShotsStep == ObjEntry([action |-> Val("b"), screenshot |-> "data_short", image |-> "image_bad"])

Histories == {HList(<<NavigateStep>>)}
HistoriesOne ==
    {HNone, HList(<<>>), HList(<<NavigateStep, ClickStep>>),
     HList(<<NavigateStep, UnprintableStep>>), HObject(NavigateStep),
     HList(<<UnprintableStep, ClickStep>>), HList(<<UnknownStep, ShortTuple>>),
     HList(<<PriorityStep, FalsyTuple>>), HList(<<BadShotsStep, UrlShotStep>>),
     HList(<<UrlShotTuple>>)}

ManualOutcomes == {<<"raises", "empty", "ok">>}
ManualOutcomesOne ==
    {<<"ok", "ok", "ok">>, <<"raises", "empty", "ok">>, <<"raises", "empty", "empty">>}

\* What an external call does: it returns (NoExc) or raises.
Outcomes == {NoExc, "boom"}
OutcomesOne == ExcMessages \cup {NoExc}

Next ==
    \/ Tick
    \/ execute_test(TestInstructions, MaxRuns)
    \/ \E r \in Runs, open_fails \in BOOLEAN : StartTask(r, open_fails)
    \/ \E r \in Runs, e \in Outcomes : CreateAgent(r, e)
    \/ \E r \in Runs, m \in ManualOutcomes : InitialShot(r, m)
    \/ \E r \in Runs, h \in Histories, e \in Outcomes : AgentRun(r, h, e)
    \/ \E r \in Runs, m \in ManualOutcomes : FinalShot(r, m, TRUE)
    \/ \E r \in Runs, e \in Outcomes : CloseBrowser(r, e)
    \/ \E id \in TaskIds : get_task_status(id)
    \/ \E id \in TaskIds : get_task_results(id)
    \/ \E id \in TaskIds, e \in Outcomes : analyze_results(id, e)
    \/ list_tasks

NextOne ==
    \/ Tick
    \/ execute_test(TestInstructions, 1)
    \/ \E open_fails \in BOOLEAN : StartTask(1, open_fails)
    \/ \E e \in OutcomesOne : CreateAgent(1, e)
    \/ \E m \in ManualOutcomesOne : InitialShot(1, m)
    \/ \E h \in HistoriesOne, e \in OutcomesOne : AgentRun(1, h, e)
    \/ \E m \in ManualOutcomesOne, w \in BOOLEAN : FinalShot(1, m, w)
    \/ \E e \in OutcomesOne : CloseBrowser(1, e)
    \/ \E id \in TaskIds : get_task_status(id)
    \/ \E id \in TaskIds : get_task_results(id)
    \/ \E id \in TaskIds, e \in Outcomes : analyze_results(id, e)
    \/ list_tasks

Spec == Init /\ [][Next]_vars
SpecOne == Init /\ [][NextOne]_vars

\* Scheduling.  The event loop resumes every coroutine whose awaited call has
\* returned, so the steps of a run that follow a return are taken (weak
\* fairness).  Nothing bounds the automation call itself (line 551 has no
\* timeout): the call of run Hung may never return, the other run's does.
\* SpecHang follows the first two submissions.
Hung == 1
Other == 2
RunSteps(r) ==
    \/ \E open_fails \in BOOLEAN : StartTask(r, open_fails)
    \/ \E e \in Outcomes : CreateAgent(r, e)
    \/ \E m \in ManualOutcomes : InitialShot(r, m)
    \/ \E m \in ManualOutcomes : FinalShot(r, m, TRUE)
    \/ \E e \in Outcomes : CloseBrowser(r, e)
Automation(r) == \E h \in Histories, e \in Outcomes : AgentRun(r, h, e)

NextHang ==
    \/ Tick
    \/ execute_test(TestInstructions, Other)
    \/ \E r \in {Hung, Other} : RunSteps(r)
    \/ \E r \in {Hung, Other} : Automation(r)
    \/ \E id \in TaskIds : get_task_status(id)
    \/ \E id \in TaskIds : get_task_results(id)
    \/ \E id \in TaskIds, e \in Outcomes : analyze_results(id, e)
    \/ list_tasks

SpecHang ==
    /\ Init /\ [][NextHang]_vars
    /\ \A r \in {Hung, Other} : WF_vars(RunSteps(r))
    /\ WF_vars(Automation(Other))

\* Every external call returns or raises in the end: the automation call of
\* either run is as fair as the other steps.
SpecFair ==
    /\ Init /\ [][NextHang]_vars
    /\ \A r \in {Hung, Other} : WF_vars(RunSteps(r)) /\ WF_vars(Automation(r))

\* The analyzer on its own: one completed record whose result document and
\* instructions range over the samples below; every step applies the tool.
MaxShots == 2
TargetUrl == <<"x", ".", "i", "o">>
ActionTexts ==
    {<<"n", "a", "v", "i", "g", "a", "t", "e">>,
     <<"G", "o", " ", "N", "A", "V", "I", "G", "A", "T", "E", " ", "n", "o", "w">>,
     <<"o", "p", "e", "n", " ", "x", ".", "i", "o">>,
     <<"c", "l", "i", "c", "k">>,
     <<"n", "a", "v", "i", "g", "a", "t">>,
     <<"o", "p", "e", "n", " ", "X", ".", "I", "O">>}
StepSamples ==
    {<<>>, <<[step_number |-> 1, result |-> <<>>]>>}
    \cup {<<[step_number |-> 1, action |-> a]>> : a \in ActionTexts}
    \cup {<<[step_number |-> 1, action |-> <<"c", "l", "i", "c", "k">>], [step_number |-> 2, action |-> a]>> :
             a \in ActionTexts}
ShotLists == {[k \in 1..n |-> <<"shot", k>>] : n \in 0..MaxShots}
InstructionLists ==
    {[k \in 1..n |-> [step_description |-> "s", filename |-> <<"f", k>>]] : n \in 0..MaxShots}
ResultSamples ==
    {[task_id |-> TaskId(0), success |-> ok, error |-> IF ok THEN None ELSE "boom",
      execution_steps |-> steps, screenshots |-> shots, full_conversation |-> <<>>] :
        ok \in BOOLEAN, steps \in StepSamples, shots \in ShotLists}
InstructionSamples ==
    {[target_url |-> TargetUrl, task_description |-> "open the page",
      screenshot_instructions |-> req] : req \in InstructionLists}

InitAnalyze ==
    /\ GEMINI_API_KEY = TRUE
    /\ clock = 0
    /\ \E res \in ResultSamples, ins \in InstructionSamples :
          task_storage =
             (TaskId(0) :> [task_id |-> TaskId(0), status |-> "completed",
                            start_time |-> IsoFormat(0), end_time |-> IsoFormat(0),
                            instructions |-> ins, results |-> res])
    /\ storage_order = <<TaskId(0)>>
    /\ run = [r \in Runs |-> IdleRun]
    /\ nruns = 0
    /\ sys_stdout = OrigStream

NextAnalyze == \E save_ok \in BOOLEAN : AnalyzeResultsTool(TaskId(0), save_ok)

SpecAnalyze == InitAnalyze /\ [][NextAnalyze]_vars

\* The two forms of the analyzer on the same inputs.  Besides the samples
\* above, a result document and an instruction set may lack the keys the
\* tool reads with a default.
BareResult == [task_id |-> TaskId(0)]
BareInstructions == [task_description |-> "open the page"]
ResultSamplesForms ==
    ResultSamples
    \cup {BareResult,
          [task_id |-> TaskId(0), execution_steps |-> <<[step_number |-> 1]>>],
          [task_id |-> TaskId(0), success |-> TRUE,
           execution_steps |-> <<[step_number |-> 1]>>]}
InstructionSamplesForms == InstructionSamples \cup {BareInstructions}

InitForms ==
    /\ GEMINI_API_KEY = TRUE
    /\ clock = 0
    /\ \E res \in ResultSamplesForms, ins \in InstructionSamplesForms :
          task_storage =
             (TaskId(0) :> [task_id |-> TaskId(0), status |-> "completed",
                            start_time |-> IsoFormat(0), end_time |-> IsoFormat(0),
                            instructions |-> ins, results |-> res])
    /\ storage_order = <<TaskId(0)>>
    /\ run = [r \in Runs |-> IdleRun]
    /\ nruns = 0
    /\ sys_stdout = OrigStream

NextForms ==
    \/ \E save_ok \in BOOLEAN : AnalyzeResultsTool(TaskId(0), save_ok)
    \/ \E save_ok \in BOOLEAN : ScriptAnalyzeResultsTool(TaskId(0), save_ok)

SpecForms == InitForms /\ [][NextForms]_vars

\* ================================================================ claims
Terminal == {"completed", "failed"}
Known == DOMAIN task_storage
StatusOf(id) == task_storage[id]["status"]

\* C1: a record is created with status pending, and its status only ever
\* moves pending -> running -> completed or failed: no terminal status is
\* reached from a status other than running.
C1_StatusOrder ==
    [][\A id \in TaskIds :
         /\ (id \notin Known /\ id \in DOMAIN task_storage')
               => task_storage'[id]["status"] = "pending"
         /\ (id \in Known /\ task_storage'[id]["status"] /= StatusOf(id))
               => <<StatusOf(id), task_storage'[id]["status"]>> \in
                     {<<"pending", "running">>, <<"running", "completed">>,
                      <<"running", "failed">>}]_vars

\* C2: once a task's status is completed or failed it never changes again,
\* whatever step follows.
C2_TerminalIsFinal ==
    [][\A id \in Known :
         StatusOf(id) \in Terminal => task_storage'[id]["status"] = StatusOf(id)]_vars

\* C3: when the automation run or a later step of the orchestration raised,
\* the task is failed, the record's error and the stored result's error are
\* non-empty and the session was closed exactly once; a run that ended
\* without an exception closed the session exactly once too.  (A run whose
\* agent could not be created has no session and is not constrained.)
C3_FailedAndClosedOnce ==
    \A r \in Runs :
        (run[r].pc = "returned" /\ run[r].exc \in ExcMessages \cup {NotIterable, NoExc}) =>
            LET rec == task_storage[run[r].task_id] IN
            /\ run[r].closes = 1
            /\ run[r].exc /= NoExc =>
                  /\ rec["status"] = "failed"
                  /\ DictGet(rec, "error", None) \notin {None, ""}
                  /\ rec["results"]["error"] \notin {None, ""}

\* C4: every exception raised while a task is orchestrated ends the run
\* with the record failed and the exception's message as its error; no run
\* ends with its record still running.
C4_EveryExceptionFails ==
    \A r \in Runs :
        run[r].exc /= NoExc =>
            /\ run[r].pc = "returned"
            /\ StatusOf(run[r].task_id) = "failed"
            /\ DictGet(task_storage[run[r].task_id], "error", None) = run[r].exc

\* C5: in every result document the normalizer returned, and in every one
\* stored on a completed record, success = true implies error is None and
\* success = false implies a non-empty error message; this includes the
\* document of an empty history and the one whose JSON file could not be
\* written after the steps were processed.
SuccessMatchesError(doc) ==
    /\ doc["success"] => doc["error"] = None
    /\ ~doc["success"] => doc["error"] \notin {None, ""}

C5_SuccessIffNoError ==
    /\ \A r \in Runs : run[r].pc = "close" => SuccessMatchesError(run[r].results)
    /\ \A id \in Known :
          StatusOf(id) = "completed" => SuccessMatchesError(task_storage[id]["results"])

\* C6: for a run whose automation call returned without raising, an empty
\* or absent history normalizes to zero steps, and the normalized result
\* has success = true whatever the history's length (here: whenever the
\* normalizer itself reported no error).
C6_SuccessWithoutRaise ==
    \A r \in Runs :
        run[r].pc = "close" =>
            /\ history_list(run[r].history) = <<>> => run[r].results["execution_steps"] = <<>>
            /\ run[r].results["error"] = None => run[r].results["success"]

\* C7: for every task id that is not in the store, get_task_status,
\* get_task_results and analyze_results all answer 404, whatever the other
\* records are, with or without the API key and whatever the analysis call
\* would do, and the store analyze_results leaves behind is the store it
\* found (the two GET handlers write nothing at all).
C7_UnknownIdNotFound ==
    \A id \in TaskIds \ Known :
        /\ get_task_status_response(id).code = 404
        /\ get_task_results_response(id).code = 404
        /\ \A e \in OutcomesOne :
              /\ analyze_results_response(id, e).code = 404
              /\ StorageAfterAnalyze(id, e) = task_storage

C7_Witness ==
    \E id \in TaskIds \ Known, k \in Known :
        /\ StatusOf(k) = "completed"
        /\ GEMINI_API_KEY
        /\ analyze_results_response(id, NoExc).code = 404
        /\ analyze_results_response(k, NoExc).code = 200

\* C8: for a task in the store, get_task_results answers 400 exactly when
\* the status is pending or running and 200 exactly when it is completed or
\* failed; the body of a 200 is the result document stored on the record,
\* which is present and carries every field of a result.
ResultFields ==
    {"task_id", "timestamp", "task_details", "success", "error", "execution_steps",
     "screenshots", "screenshot_urls"}

C8_ResultsWhenTerminal ==
    \A id \in Known :
        LET rec == task_storage[id]
            resp == get_task_results_response(id)
        IN  /\ resp.code = 400 <=> rec["status"] \in {"pending", "running"}
            /\ resp.code = 200 <=> rec["status"] \in Terminal
            /\ resp.code = 200 =>
                  /\ "results" \in DOMAIN rec
                  /\ resp.body = rec["results"]
                  /\ ResultFields \subseteq DOMAIN resp.body

C8_Witness ==
    \E a \in Known, b \in Known :
        /\ StatusOf(a) = "failed"
        /\ get_task_results_response(a).code = 200
        /\ get_task_results_response(a).body["error"] = "boom"
        /\ StatusOf(b) = "running"
        /\ get_task_results_response(b).code = 400

\* C9: for a task in the store whose status is pending, running or failed,
\* analyze_results answers 400 whatever the key and the analysis call, and
\* the store it leaves behind is the store it found: no analysis is
\* written.
C9_AnalysisOnlyWhenCompleted ==
    \A id \in Known :
        StatusOf(id) /= "completed" =>
            \A e \in OutcomesOne :
                /\ analyze_results_response(id, e).code = 400
                /\ StorageAfterAnalyze(id, e) = task_storage

C9_Witness ==
    \E a \in Known, b \in Known :
        /\ StatusOf(a) = "failed"
        /\ analyze_results_response(a, NoExc).code = 400
        /\ "analysis" \notin DOMAIN task_storage[a]
        /\ StatusOf(b) = "completed"
        /\ "analysis" \in DOMAIN task_storage[b]

\* C10: in every state, a record has end_time if and only if its status is
\* completed or failed.
C10_EndTimeIffTerminal ==
    \A id \in Known :
        ("end_time" \in DOMAIN task_storage[id]) <=> (StatusOf(id) \in Terminal)

\* C11: in every state, a record carries a result document if and only if
\* its status is completed or failed, and the result of a failed record has
\* success = false and the record's own error text as its error.
C11_ResultsIffTerminal ==
    \A id \in Known :
        LET rec == task_storage[id] IN
        /\ ("results" \in DOMAIN rec) <=> (rec["status"] \in Terminal)
        /\ rec["status"] = "failed" =>
              /\ ~rec["results"]["success"]
              /\ rec["results"]["error"] = rec["error"]

\* C12: for a history of N entries the normalizer returns exactly N step
\* records, in input order and numbered 1..N; an entry of unknown shape (an
\* object with no recognised field, a tuple shorter than 2) gives a record
\* with action = "N/A" and result = "N/A".
UnknownShape(entry) ==
    IF entry.tuple
    THEN Len(entry.items) < 2
    ELSE \A k \in 1..Len(action_attrs \o result_attrs) :
            (action_attrs \o result_attrs)[k] \notin DOMAIN entry.attrs

C12_OneStepPerEntry ==
    \A r \in Runs :
        run[r].pc = "close" =>
            LET list == history_list(run[r].history)
                steps == run[r].results["execution_steps"]
            IN  /\ Len(steps) = Len(list)
                /\ \A i \in 1..Len(steps) :
                      /\ steps[i]["step_number"] = i
                      /\ UnknownShape(list[i]) =>
                            steps[i]["action"] = "N/A" /\ steps[i]["result"] = "N/A"

\* C13: an extraction error in one entry of a history does not fail the
\* normalization: every entry that can be processed has its step record in
\* execution_steps, and the result of a non-empty history is not marked
\* unsuccessful.
ProcessedAlone(r, n) ==
    ProcessStep(history_list(run[r].history)[n], n, run[r].task_id,
                StrfSeconds(clock), clock).exc = NoExc

C13_StepErrorIsLocal ==
    \A r \in Runs :
        run[r].pc = "close" =>
            LET list == history_list(run[r].history)
                steps == run[r].results["execution_steps"]
            IN  /\ \A n \in 1..Len(list) :
                      ProcessedAlone(r, n) =>
                          \E i \in 1..Len(steps) : steps[i]["step_number"] = n
                /\ list /= <<>> => run[r].results["success"]

\* C14: in a result, screenshots and screenshot_urls have the same length
\* and their i-th entries name the same file; the entries are the steps'
\* screenshots in step order, then the "initial" capture if it was taken,
\* then the "final" capture if it was taken; the lists of a stored result
\* are only ever extended.
RECURSIVE StepShots(_)
StepShots(steps) ==
    IF steps = <<>> THEN <<>>
    ELSE (IF "screenshot" \in DOMAIN Head(steps) THEN <<Head(steps)["screenshot"]>> ELSE <<>>)
         \o StepShots(Tail(steps))

ManualShots(initial, final) ==
    (IF initial.path /= NoneT THEN <<initial.path>> ELSE <<>>)
    \o (IF final.path /= NoneT THEN <<final.path>> ELSE <<>>)

IsPrefix(a, b) == Len(a) <= Len(b) /\ \A i \in 1..Len(a) : a[i] = b[i]

ScreenshotsInOrder ==
    \A r \in Runs :
        run[r].pc = "close" =>
            LET res == run[r].results IN
            /\ Len(res["screenshots"]) = Len(res["screenshot_urls"])
            /\ \A i \in 1..Len(res["screenshots"]) :
                  Tail(res["screenshots"][i]) = Tail(res["screenshot_urls"][i])
            /\ res["screenshots"] =
                  StepShots(res["execution_steps"]) \o ManualShots(run[r].initial, run[r].final)

C14_ScreenshotsPairedInOrder ==
    /\ []ScreenshotsInOrder
    /\ [][\A id \in Known :
            ("results" \in DOMAIN task_storage[id] /\ id \in DOMAIN task_storage')
               => /\ "results" \in DOMAIN task_storage'[id]
                  /\ IsPrefix(task_storage[id]["results"]["screenshots"],
                              task_storage'[id]["results"]["screenshots"])
                  /\ IsPrefix(task_storage[id]["results"]["screenshot_urls"],
                              task_storage'[id]["results"]["screenshot_urls"])]_vars

C14_Witness ==
    \E r \in Runs :
        /\ run[r].pc = "close"
        /\ run[r].initial.path /= NoneT
        /\ run[r].final.path /= NoneT
        /\ StepShots(run[r].results["execution_steps"]) /= <<>>
        /\ Len(run[r].results["screenshots"]) = 3

\* C15: in a result, screenshots has at least as many entries as there are
\* step records with a screenshot reference; every step's reference is an
\* entry of screenshots, no two steps share one, and the steps contribute
\* at most one entry each.
C15_StepShotsAreListed ==
    \A r \in Runs :
        run[r].pc = "close" =>
            LET res == run[r].results
                steps == res["execution_steps"]
                with == {i \in 1..Len(steps) : "screenshot" \in DOMAIN steps[i]}
            IN  /\ Len(res["screenshots"]) >= Cardinality(with)
                /\ \A i \in with :
                      \E j \in 1..Len(res["screenshots"]) :
                          res["screenshots"][j] = steps[i]["screenshot"]
                /\ \A i \in with, k \in with :
                      i /= k => steps[i]["screenshot"] /= steps[k]["screenshot"]
                /\ Len(res["screenshots"])
                      <= Len(history_list(run[r].history))
                         + Len(ManualShots(run[r].initial, run[r].final))

C15_Witness ==
    \E r \in Runs :
        /\ run[r].pc = "close"
        /\ run[r].initial.path = NoneT
        /\ run[r].final.path /= NoneT
        /\ Len(run[r].results["execution_steps"]) = 2
        /\ "screenshot" \in DOMAIN run[r].results["execution_steps"][2]
        /\ Len(run[r].results["screenshots"]) = 2

\* C16: capture_manual_screenshot returns a pair to its caller whatever its
\* three strategies meet: path and URL of the capture, both set, exactly
\* when the browser is there and some strategy succeeds (the first that
\* does, in the order tried), and (None, None) otherwise; and a run leaves
\* its "initial" or "final" capture without failing because of it.
AllStrategyOutcomes == [1..3 -> StrategyOutcomes]

CaptureReturnsPair ==
    \A methods \in AllStrategyOutcomes, has_browser \in BOOLEAN,
       step_name \in {"initial", "final"}, id \in TaskIds :
        LET shot == capture_manual_screenshot(has_browser, methods, id, step_name, clock)
            name == ManualShotName(id, step_name, StrfSeconds(clock))
        IN  /\ DOMAIN shot = {"path", "url"}
            /\ (shot.path = NoneT) <=> (shot.url = NoneT)
            /\ (shot.path /= NoneT) <=> (has_browser /\ FirstOk(methods, 1) > 0)
            /\ shot.path /= NoneT => shot.path = ShotPath(name) /\ shot.url = ShotUrl(name)

C16_CaptureNeverRaises ==
    /\ []CaptureReturnsPair
    /\ [][\A r \in Runs :
            /\ (run[r].pc = "initial_shot" /\ run'[r].pc /= "initial_shot")
                  => run'[r].pc = "run" /\ run'[r].exc = NoExc
            /\ (run[r].pc = "final_shot" /\ run'[r].pc /= "final_shot")
                  => \/ run'[r].pc = "close" /\ run'[r].exc = NoExc
                     \/ run'[r].exc = NotIterable]_vars

C16_Witness ==
    \E r \in Runs :
        /\ run[r].pc = "close"
        /\ run[r].initial = [path |-> NoneT, url |-> NoneT]
        /\ run[r].final = [path |-> NoneT, url |-> NoneT]
        /\ run[r].results["success"]
        /\ run[r].results["screenshots"] = <<>>

\* C17: a submission is given a task id that is not a key of the store yet,
\* so it overwrites no record, and no two runs ever have the same task id.
C17_FreshTaskId ==
    /\ [](\A a \in Runs, b \in Runs :
            (a /= b /\ run[a].pc /= "idle" /\ run[b].pc /= "idle")
               => run[a].task_id /= run[b].task_id)
    /\ [][nruns' /= nruns =>
            /\ run'[nruns'].task_id \notin Known
            /\ \A id \in Known : task_storage'[id] = task_storage[id]]_vars

\* C18: while the automation call of one run never returns, every other
\* run that has started goes on to return with its record completed or
\* failed, and get_task_status, get_task_results and list_tasks answer in
\* every state.
HandlersAnswer ==
    /\ \A id \in TaskIds :
          /\ get_task_status_response(id).code \in {200, 404}
          /\ get_task_results_response(id).code \in {200, 400, 404}
    /\ list_tasks_response.code = 200
    /\ Len(list_tasks_response.body.tasks) = Cardinality(Known)

C19_ListsEverySubmission ==
    /\ [](LET tasks == list_tasks_response.body.tasks IN
          /\ Len(tasks) = nruns
          /\ \A k \in 1..nruns : tasks[k].task_id = run[k].task_id)
    /\ [][Known \subseteq DOMAIN task_storage']_vars

\* C20: the report's target_url_accessed is true if and only if some step's
\* action text contains the target URL or contains "navigate" in any
\* letter case; for a result with no steps it is false.
ReportOf(id) == task_storage[id]["analysis"]["analysis_content"]

C20_TargetUrlAccessed ==
    \A id \in Known :
        "analysis" \in DOMAIN task_storage[id] =>
            LET steps == task_storage[id]["results"]["execution_steps"]
                url == task_storage[id]["instructions"]["target_url"]
                accessed == ReportOf(id)["compliance_check"]["target_url_accessed"]
            IN  /\ accessed <=>
                      \E k \in 1..Len(steps) :
                          /\ "action" \in DOMAIN steps[k]
                          /\ \/ Contains(steps[k]["action"], url)
                             \/ \E i \in 1..Len(steps[k]["action"]) :
                                   \A j \in 1..Len(Navigate) :
                                       /\ i + j - 1 <= Len(steps[k]["action"])
                                       /\ LowerChar(steps[k]["action"][i + j - 1]) = Navigate[j]
                /\ steps = <<>> => ~accessed

C20_Witness ==
    \E id \in Known :
        /\ "analysis" \in DOMAIN task_storage[id]
        /\ ReportOf(id)["compliance_check"]["target_url_accessed"]
        /\ Len(task_storage[id]["results"]["execution_steps"]) = 2
        /\ ~Contains(task_storage[id]["results"]["execution_steps"][2]["action"], Navigate)
        /\ ~Contains(task_storage[id]["results"]["execution_steps"][2]["action"], TargetUrl)

\* C21: the compliance entry of a report, in either form of the analyzer,
\* has required = the number of screenshot instructions, captured = the
\* number of screenshots of the result, and meets_requirements = (captured
\* >= required); meets_requirements is true whenever nothing was required.
Reports(id) ==
    (IF "analysis" \in DOMAIN task_storage[id] THEN {ReportOf(id)} ELSE {})
    \cup (IF "script_report" \in DOMAIN task_storage[id]
          THEN {task_storage[id]["script_report"]} ELSE {})
RequiredOf(id) == Len(DictGet(task_storage[id]["instructions"], "screenshot_instructions", <<>>))
CapturedOf(id) == Len(DictGet(task_storage[id]["results"], "screenshots", <<>>))

C21_ScreenshotCompliance ==
    \A id \in Known : \A report \in Reports(id) :
        LET entry == report["compliance_check"]["screenshots_captured"] IN
        /\ entry["required"] = RequiredOf(id)
        /\ entry["captured"] = CapturedOf(id)
        /\ entry["meets_requirements"] <=> (CapturedOf(id) >= RequiredOf(id))
        /\ RequiredOf(id) = 0 => entry["meets_requirements"]

C21_Witness ==
    \E id \in Known :
        /\ "analysis" \in DOMAIN task_storage[id]
        /\ RequiredOf(id) = 0
        /\ CapturedOf(id) = 0
        /\ ReportOf(id)["compliance_check"]["screenshots_captured"]["meets_requirements"]

\* C22: the recommendations are the notices of four rules, each tested on
\* its own and always in this order: the failure notice iff success is
\* false, the target-URL notice iff target_url_accessed is false, the
\* missing-screenshots notice iff captured < required, the positive
\* confirmation iff success and target_url_accessed; in the service's form
\* the confirmation is followed by the captured-count summary iff at least
\* one screenshot was captured, and the script's form has no such summary.
FailureNotice == "Task execution failed - check error logs"
UrlNotice == "Target URL"
MissingNotice == "Not all required screenshots were captured"
PositiveNotice == "Task appears to have completed successfully"
CountNotice == "Successfully captured"
NoticeOrder == <<FailureNotice, UrlNotice, MissingNotice, PositiveNotice, CountNotice>>

Has(list, notice) == \E i \in 1..Len(list) : Head(list[i]) = notice
SuccessOf(id) == DictGet(task_storage[id]["results"], "success", FALSE)

\* The list holds exactly the notices of `present`, each once, in NoticeOrder.
InRuleOrder(list, present) ==
    /\ \A i \in 1..Len(list) : Head(list[i]) \in present
    /\ \A n \in present : Has(list, n)
    /\ \A i \in 1..Len(list), j \in 1..Len(list) :
          i < j => \E a \in 1..Len(NoticeOrder), b \in 1..Len(NoticeOrder) :
                      /\ a < b
                      /\ Head(list[i]) = NoticeOrder[a]
                      /\ Head(list[j]) = NoticeOrder[b]

RuleNotices(id, report, counted) ==
    LET accessed == report["compliance_check"]["target_url_accessed"] IN
    (IF ~SuccessOf(id) THEN {FailureNotice} ELSE {})
    \cup (IF ~accessed THEN {UrlNotice} ELSE {})
    \cup (IF CapturedOf(id) < RequiredOf(id) THEN {MissingNotice} ELSE {})
    \cup (IF SuccessOf(id) /\ accessed THEN {PositiveNotice} ELSE {})
    \cup (IF SuccessOf(id) /\ accessed /\ counted THEN {CountNotice} ELSE {})

C22_RulesInOrder ==
    \A id \in Known :
        /\ "analysis" \in DOMAIN task_storage[id] =>
              /\ InRuleOrder(ReportOf(id)["recommendations"],
                             RuleNotices(id, ReportOf(id), CapturedOf(id) > 0))
              /\ \A i \in 1..Len(ReportOf(id)["recommendations"]) :
                    LET entry == ReportOf(id)["recommendations"][i] IN
                    Head(entry) = CountNotice => entry[2] = CapturedOf(id)
        /\ "script_report" \in DOMAIN task_storage[id] =>
              InRuleOrder(task_storage[id]["script_report"]["recommendations"],
                          RuleNotices(id, task_storage[id]["script_report"], FALSE))

C22_Witness ==
    \E id \in Known :
        /\ "analysis" \in DOMAIN task_storage[id]
        /\ "script_report" \in DOMAIN task_storage[id]
        /\ Len(ReportOf(id)["recommendations"]) = 3
        /\ Has(ReportOf(id)["recommendations"], FailureNotice)
        /\ Has(ReportOf(id)["recommendations"], UrlNotice)
        /\ Has(ReportOf(id)["recommendations"], MissingNotice)

\* C22 as first stated: whenever success and target_url_accessed are both
\* true, the positive confirmation is followed by a captured-count summary.
C22_CountAlwaysFollows ==
    \A id \in Known : \A report \in Reports(id) :
        InRuleOrder(report["recommendations"], RuleNotices(id, report, TRUE))

\* C29: in either form the recommendations of a report are never empty, and
\* the failure notice and the positive confirmation are never both in one
\* list.
C29_SomeRecommendation ==
    \A id \in Known : \A report \in Reports(id) :
        /\ report["recommendations"] /= <<>>
        /\ ~(Has(report["recommendations"], FailureNotice)
             /\ Has(report["recommendations"], PositiveNotice))

C29_Witness ==
    \E id \in Known :
        /\ "script_report" \in DOMAIN task_storage[id]
        /\ ~SuccessOf(id)
        /\ task_storage[id]["script_report"]["compliance_check"]["target_url_accessed"]
        /\ CapturedOf(id) >= RequiredOf(id)
        /\ Len(task_storage[id]["script_report"]["recommendations"]) = 1

\* C30: applied to the same result and instructions, the service's form and
\* the script's form of the tool report the same compliance_check: the same
\* target_url_accessed and the same required, captured and
\* meets_requirements.
C30_FormsAgree ==
    \A id \in Known :
        ("analysis" \in DOMAIN task_storage[id] /\ "script_report" \in DOMAIN task_storage[id])
            => ReportOf(id)["compliance_check"]
                  = task_storage[id]["script_report"]["compliance_check"]

C30_Witness ==
    \E id \in Known :
        /\ "analysis" \in DOMAIN task_storage[id]
        /\ "script_report" \in DOMAIN task_storage[id]
        /\ RequiredOf(id) = 0
        /\ "screenshot_instructions" \notin DOMAIN task_storage[id]["instructions"]
        /\ ReportOf(id)["compliance_check"]["screenshots_captured"]["meets_requirements"]

\* C23: within one task the steps of the orchestration are taken in this
\* order, each at most once: status set to running, agent created, initial
\* screenshot, automation run, final screenshot, normalization and merge of
\* the manual screenshots, session close, status set to completed; while a
\* task's run has not come back from the session close, the task's status
\* is not completed.
StepOrder ==
    {<<"idle", "queued">>, <<"queued", "create_agent">>, <<"queued", "raised">>,
     <<"create_agent", "initial_shot">>, <<"create_agent", "returned">>,
     <<"initial_shot", "run">>, <<"run", "final_shot">>, <<"run", "returned">>,
     <<"final_shot", "close">>, <<"final_shot", "returned">>, <<"close", "returned">>}

C23_OrchestrationOrder ==
    /\ [][\A r \in Runs :
            /\ run'[r].pc /= run[r].pc => <<run[r].pc, run'[r].pc>> \in StepOrder
            /\ (run[r].pc = "queued" /\ run'[r].pc /= "queued")
                  => task_storage'[run[r].task_id]["status"] = "running"
            /\ run'[r].results /= run[r].results
                  => run[r].pc \in {"final_shot", "close"}]_vars
    /\ [](\A r \in Runs :
            /\ run[r].pc \in {"queued", "create_agent", "initial_shot", "run", "final_shot", "close"}
                  => StatusOf(run[r].task_id) /= "completed"
            /\ (run[r].pc = "returned" /\ StatusOf(run[r].task_id) = "completed")
                  => run[r].closes = 1
            /\ run[r].pc \in {"queued", "create_agent", "initial_shot", "run"}
                  => run[r].final = NoneT /\ run[r].results = <<>>
            /\ run[r].pc \in {"queued", "create_agent", "initial_shot"}
                  => run[r].history = HNone)

\* C27: each run puts its own stream in place of the process-wide
\* sys.stdout/sys.stderr when it starts and puts back the value it saved
\* when it ends; once every submitted task has reached completed or failed
\* and every run has ended, sys.stdout and sys.stderr are the streams that
\* were installed before any run started, whatever the interleaving.
AllTasksDone ==
    /\ nruns > 0
    /\ \A r \in 1..nruns : run[r].pc = "returned"
    /\ \A id \in Known : StatusOf(id) \in Terminal

C27_StdoutRestored == AllTasksDone => sys_stdout = OrigStream

\* C24: the step record of an entry is filled by a fixed priority.  A tuple
\* of length >= 2 gives element 0 as action and element 1 as result, as
\* text, "N/A" for a falsy element.  Any other entry takes action from the
\* first present non-empty field among model_output, action, input, query,
\* tool_calls, result from the first among result, output, response,
\* content, and timestamp from the first among timestamp, time, created_at;
\* without such a field action and result are "N/A" and timestamp is the
\* time of normalization.
ActionFields == <<"model_output", "action", "input", "query", "tool_calls">>
OutcomeFields == <<"result", "output", "response", "content">>
TimeFields == <<"timestamp", "time", "created_at">>

NonEmpty(attrs, name) == name \in DOMAIN attrs /\ attrs[name].text /= ""

\* value is what fields `names` give for `attrs`: text(v) of the first
\* non-empty one, or else `fallback`.
FirstField(attrs, names, value, text(_), fallback) ==
    \/ \E k \in 1..Len(names) :
          /\ NonEmpty(attrs, names[k])
          /\ \A j \in 1..(k - 1) : ~NonEmpty(attrs, names[j])
          /\ value = text(attrs[names[k]])
    \/ /\ \A k \in 1..Len(names) : ~NonEmpty(attrs, names[k])
       /\ value = fallback

C24_ExtractionPriority ==
    \A r \in Runs :
        run[r].pc = "close" =>
            LET list == history_list(run[r].history)
                steps == run[r].results["execution_steps"]
                plain(v) == v.text
                stamped(v) == <<"text", v.text>>
            IN  \A i \in 1..Len(steps) :
                    IF list[i].tuple /\ Len(list[i].items) >= 2
                    THEN /\ steps[i]["action"] =
                               IF list[i].items[1].value.text = "" THEN "N/A"
                               ELSE list[i].items[1].value.text
                         /\ steps[i]["result"] =
                               IF list[i].items[2].value.text = "" THEN "N/A"
                               ELSE list[i].items[2].value.text
                    ELSE LET attrs == IF list[i].tuple THEN <<>> ELSE list[i].attrs IN
                         /\ FirstField(attrs, ActionFields, steps[i]["action"], plain, "N/A")
                         /\ FirstField(attrs, OutcomeFields, steps[i]["result"], plain, "N/A")
                         /\ FirstField(attrs, TimeFields, steps[i]["timestamp"], stamped,
                                       IsoFormat(clock))

C24_Witness ==
    \E r \in Runs :
        /\ run[r].pc = "close"
        /\ Len(run[r].results["execution_steps"]) = 2
        /\ run[r].results["execution_steps"][1]["action"] = "press"
        /\ run[r].results["execution_steps"][1]["result"] = "out"
        /\ run[r].results["execution_steps"][1]["timestamp"] = <<"text", "12:00">>
        /\ run[r].results["execution_steps"][2]["action"] = "N/A"
        /\ run[r].results["execution_steps"][2]["result"] = "res"

\* C25: for an entry that is not a tuple the fields screenshot, image,
\* screen_capture and page_screenshot are probed in that order and the first
\* whose payload decodes is the one used: the step has a screenshot
\* reference exactly when some field's payload decodes, and the reference's
\* file was written from it.  A field whose decoding raises records nothing
\* and the next field is probed; the step itself is emitted all the same.
ShotFields == <<"screenshot", "image", "screen_capture", "page_screenshot">>
Decodes(p) == p \in {"bytes", "image", "data_image", "path_ok"}
DecodingRaises(p) == p \in {"image_bad", "data_short"}

FilesOf(r) == save_execution_files(run[r].history, run[r].task_id, clock)

C25_FirstDecodableField ==
    \A r \in Runs :
        run[r].pc = "close" =>
            LET list == history_list(run[r].history)
                steps == run[r].results["execution_steps"]
            IN  /\ \A i \in 1..Len(steps) :
                      ~list[i].tuple =>
                          LET attrs == list[i].attrs
                              decodable ==
                                  \E k \in 1..Len(ShotFields) :
                                      /\ ShotFields[k] \in DOMAIN attrs
                                      /\ Decodes(attrs[ShotFields[k]])
                          IN  /\ ("screenshot" \in DOMAIN steps[i]) <=> decodable
                              /\ "screenshot" \in DOMAIN steps[i]
                                    => steps[i]["screenshot"] \in FilesOf(r)
                /\ \A i \in 1..Len(list) :
                      (/\ ~list[i].tuple
                       /\ \A j \in 1..i : ProcessedAlone(r, j))
                          => /\ Len(steps) >= i
                             /\ steps[i]["step_number"] = i

\* C26: every path a result lists for a step, and every screenshot
\* reference of a step, names a file that was written, called
\* {task_id}_step_{index}_{timestamp}.png; a truthy payload in none of the
\* supported encodings adds no entry and sets no reference.
SupportedByObject(p) == p \in {"bytes", "image", "image_bad", "data_image", "data_short", "path_ok"}
SupportedByTuple(p) == p \in {"bytes", "image", "image_bad"}

C26_RecordedMeansWritten ==
    \A r \in Runs :
        run[r].pc = "close" =>
            LET list == history_list(run[r].history)
                steps == run[r].results["execution_steps"]
            IN  /\ \A i \in 1..Len(steps) :
                      "screenshot" \in DOMAIN steps[i] =>
                          /\ steps[i]["screenshot"] \in FilesOf(r)
                          /\ steps[i]["screenshot"] =
                                ShotPath(StepShotName(run[r].task_id, i, StrfSeconds(clock)))
                /\ \A k \in 1..Len(StepShots(steps)) :
                      run[r].results["screenshots"][k] \in FilesOf(r)
                /\ \A i \in 1..Len(steps) :
                      (IF list[i].tuple
                       THEN \A j \in 1..Len(list[i].items) :
                               "screenshot" \in DOMAIN list[i].items[j]
                                  => ~SupportedByTuple(list[i].items[j].screenshot)
                       ELSE \A k \in 1..Len(ShotFields) :
                               ShotFields[k] \in DOMAIN list[i].attrs
                                  => ~SupportedByObject(list[i].attrs[ShotFields[k]]))
                          => "screenshot" \notin DOMAIN steps[i]

\* C28: when the steps of every run are taken in the end and every external
\* call (agent creation, the captures, the automation run, the session
\* close) returns or raises, every submitted task reaches the status
\* completed or failed.
C28_EveryTaskEnds ==
    \A r \in {Hung, Other} :
        (run[r].pc = "queued")
            ~> (run[r].pc /= "idle" /\ StatusOf(run[r].task_id) \in Terminal)

=============================================================================
